---- MODULE Spec2Model ----
(***************************************************************************)
(* MoltReader playback controller (src/moltreader.py).                     *)
(*                                                                         *)
(* TextToSpeechEngine is driven by two kinds of threads: the Tk main       *)
(* thread, which runs the command handlers play / pause / stop / skip and  *)
(* _on_fetch_complete one at a time, and the daemon threads started by     *)
(* play(), each running _speech_loop.  A handler is one action, except     *)
(* _on_fetch_complete, whose three assignments to state the loop reads     *)
(* are three steps.  _speech_loop and _speak are modelled statement by     *)
(* statement: pc[t] is the statement thread t executes next, and every     *)
(* step reads or writes the shared fields once.  `x += 1` on a field is a  *)
(* read step followed by a write step.                                     *)
(***************************************************************************)
EXTENDS Integers, Sequences, FiniteSets, TLC

\* ---- bounds of the model ------------------------------------------------
MaxLen == 2
MaxThreads == 2
MaxCommands == 4
PoolSize == 2
MaxCalls == 4
MaxCallers == 1
MaxLoads == 2
MaxKeys == 3

Threads == 1..MaxThreads
Speakers == {"alice", "bob"}
\* ENGLISH_VOICES, by position
Voices == 1..PoolSize
Texts == {"hi"}
NoSegment == <<"", "">>
NoRequest == <<>>

\* the agents a voice manager is asked about on its own: one more than the
\* pool has voices
AgentNames == <<"alice", "bob", "carol", "dave", "erin">>
Agents == {AgentNames[i] : i \in 1..(PoolSize + 1)}

\* what _on_fetch_complete can hand to set_content: fetch_page never returns
\* an empty list without an error.  The pages differ in length; the two
\* speakers of a page take turns.
SpeakerAt(i) == IF i % 2 = 1 THEN "alice" ELSE "bob"
Contents == {[i \in 1..n |-> <<SpeakerAt(i), "hi">>] : n \in 1..MaxLen}

\* no get_audio request yet
NoAudio == <<>>

\* Python's None, for an error message
None == "None"
\* a page as far as _extract_content looks at it: whether it has the title
\* h1.text-xl, whether the title has a post container around it, and how
\* many comments with text follow the Comments header
NoPage == [title |-> FALSE, container |-> FALSE, comments |-> 0]

VARIABLES
  \* TextToSpeechEngine fields
  is_playing, is_paused, content_queue, current_index,
  stop_event, pause_event, skip_requested,
  \* current_audio_file: TRUE when the field names a temp file on disk
  current_audio_file,
  \* EdgeTTSVoiceManager fields
  agent_voices, assigned_voices,
  \* pygame.mixer.music: "idle", "playing" or "paused"
  music,
  \* _speech_loop threads: position and locals
  pc, seg, voice, success, tmp,
  \* the Tk main thread: "idle", or inside _on_fetch_complete
  ui_pc,
  \* history: the last command that had an effect, how many had one, and the
  \* threads that were running when stop() was last called
  last_cmd, ncmds, stopped,
  \* observers of a behaviour (they constrain nothing):
  \*   owed    accepted skip() calls not yet answered by an advance of the loop
  \*   pskip   the index at which the last command, a skip(), was accepted
  \*           while paused with the audio of an utterance held; else -1
  \*   run, skip_at, log   the commands so far are loads, one play() and then
  \*           one skip() accepted during the utterance of segment skip_at;
  \*           log lists the indexes of the progress callbacks since
  \*   heard   while the commands so far are loads and one play(): what
  \*           status_callback was called with, and the failures of _speak
  \*   said    while the commands so far are loads and one play(): the text
  \*           and the voice of the last call of _speak
  \*   shown   since the last play() that started a thread, while no stop()
  \*           and no load followed it: the index reported by the last
  \*           progress callback, -1 before the first one; else -2
  \*   failed  a _speak has returned False since the last play() that
  \*           started a thread
  owed, pskip, run, skip_at, log, heard, said, shown, failed,
  \* src/moltreader_mac_tts.py: the `say` process each thread started ("none",
  \* "running", "exited" with code 0, "terminated" by a signal) and the field
  \* current_process (the thread whose process it refers to, 0 for None)
  proc, current_process,
  \* a voice manager used on its own: the calls made on it since it was
  \* constructed, <<agent, voice returned>> for get_voice_for_agent and
  \* <<"", 0>> for reset()
  calls,
  \* available_voices of the voice manager, as constructed
  available_voices,
  \* src/app.py:
  \*   sessions   the store: session key -> [obj, content, vm]; obj names the
  \*              dict object of the entry, vm the EdgeTTSVoiceManager whose
  \*              dicts the entry refers to
  \*   managers   the EdgeTTSVoiceManager object each load_url request creates
  \*   cookie     session['session_id'] of each caller's browser, 0 for none
  \*   nkeys      how many uuid4 keys were issued; the keys are 1, 2, ...
  \*   loads      the load_url requests: position and locals
  \*   reply      the last response each caller received
  \*   after_reset  since the caller's last reset no load_url of the caller
  \*              has fetched a page and written it to the store
  \*   audio      the last get_audio request of each caller: the index asked
  \*              for and the voice generate_audio was called with, which
  \*              X-Voice reports (0: generate_audio was not called)
  sessions, managers, cookie, nkeys, loads, reply, after_reset, audio,
  \* MoltbookScraper.fetch_page called on its own: the arguments and the
  \* result of the last call
  fetched

engine == <<is_playing, is_paused, content_queue, current_index,
            stop_event, pause_event, skip_requested, current_audio_file>>
manager == <<agent_voices, assigned_voices>>
locals == <<seg, voice, success, tmp>>
history == <<last_cmd, ncmds, stopped>>
observers == <<owed, pskip, run, skip_at, log, heard, said, shown, failed>>
say == <<proc, current_process>>
web == <<sessions, managers, cookie, nkeys, loads, reply, after_reset, audio>>
apart == <<calls, available_voices, web, fetched>>
vars == <<engine, manager, music, pc, locals, ui_pc, history, observers, say,
          apart>>

Live(t) == pc[t] # "dead"
LiveThreads == {t \in Threads : Live(t)}

\* ---- EdgeTTSVoiceManager ------------------------------------------------
Range(s) == {s[i] : i \in DOMAIN s}

\* unassigned = [v for v in self.available_voices if v[0] not in ...]
Unassigned_All(assigned) == Voices

Unassigned(assigned) == {v \in Voices : v \notin Range(assigned)}

\* random.choice(unassigned), or of all voices once every voice is taken
VoiceChoices_Any(assigned) == Voices

VoiceChoices(assigned) ==
  IF Unassigned(assigned) # {} THEN Unassigned(assigned) ELSE Voices

\* get_voice_for_agent(a) returning v, without its first two lines
GetVoiceForAgent_Forgetful(a, v) ==
  /\ v \in VoiceChoices(assigned_voices)
  /\ agent_voices' = (a :> v) @@ agent_voices
  /\ assigned_voices' = Append(assigned_voices, v)

\* get_voice_for_agent(a) returning v
GetVoiceForAgent(a, v) ==
  IF a \in DOMAIN agent_voices
  THEN /\ v = agent_voices[a]
       /\ UNCHANGED manager
  ELSE /\ v \in VoiceChoices(assigned_voices)
       /\ agent_voices' = (a :> v) @@ agent_voices
       /\ assigned_voices' = Append(assigned_voices, v)

\* reset() clearing the map only
VoiceReset_KeepsList ==
  /\ agent_voices' = <<>>
  /\ UNCHANGED assigned_voices

VoiceReset ==
  /\ agent_voices' = <<>>
  /\ assigned_voices' = <<>>

\* ---- Init ---------------------------------------------------------------
\* the engine and the voice manager as constructed, but for the pool
Constructed ==
  /\ is_playing = FALSE
  /\ is_paused = FALSE
  /\ content_queue = <<>>
  /\ current_index = 0
  /\ stop_event = FALSE
  /\ pause_event = FALSE
  /\ skip_requested = FALSE
  /\ current_audio_file = FALSE
  /\ agent_voices = <<>>
  /\ assigned_voices = <<>>
  /\ music = "idle"
  /\ pc = [t \in Threads |-> "dead"]
  /\ seg = [t \in Threads |-> NoSegment]
  /\ voice = [t \in Threads |-> 0]
  /\ success = [t \in Threads |-> TRUE]
  /\ tmp = [t \in Threads |-> 0]
  /\ ui_pc = "idle"
  /\ last_cmd = "none"
  /\ ncmds = 0
  /\ stopped = [t \in Threads |-> FALSE]
  /\ owed = 0
  /\ pskip = -1
  /\ run = "init"
  /\ skip_at = -1
  /\ log = <<>>
  /\ heard = <<>>
  /\ said = NoRequest
  /\ shown = -2
  /\ failed = FALSE
  /\ proc = [t \in Threads |-> "none"]
  /\ current_process = 0
  /\ calls = <<>>
  /\ sessions = <<>>
  /\ managers = [r \in 1..MaxLoads |-> [agent_voices |-> <<>>, assigned_voices |-> <<>>]]
  /\ cookie = [c \in 1..MaxCallers |-> 0]
  /\ nkeys = 0
  /\ loads = [r \in 1..MaxLoads |->
               [pc |-> "new", caller |-> 0, sid |-> 0, content |-> <<>>, obj |-> 0]]
  /\ reply = [c \in 1..MaxCallers |-> "none"]
  /\ after_reset = [c \in 1..MaxCallers |-> FALSE]
  /\ audio = [c \in 1..MaxCallers |-> NoAudio]
  /\ fetched = [url |-> <<>>, net |-> "none", page |-> NoPage,
                content |-> <<>>, error |-> None]

\* EdgeTTSVoiceManager: available_voices lists ENGLISH_VOICES
Init ==
  /\ Constructed
  /\ available_voices = [i \in 1..PoolSize |-> i]

\* ---- pygame.mixer.music -------------------------------------------------
MusicPause(m) == IF m = "playing" THEN "paused" ELSE m

MusicUnpause(m) == IF m = "paused" THEN "playing" ELSE m

\* get_busy(): TRUE while the stream plays, FALSE when idle.  For a paused
\* stream pygame 1 and pygame 2.0.0 answer TRUE, pygame >= 2.0.1 FALSE; the
\* program pins no version, so both answers are possible.
GetBusy(m) == IF m = "playing" THEN {TRUE}
              ELSE IF m = "paused" THEN {TRUE, FALSE} ELSE {FALSE}

\* the stream reaches the end of the audio
AudioEnds ==
  /\ music = "playing"
  /\ music' = "idle"
  /\ UNCHANGED <<engine, manager, pc, locals, ui_pc, history>>

\* ---- command handlers (Tk main thread) ----------------------------------
Goto(t, l) == pc' = [pc EXCEPT ![t] = l]

\* a command that has an effect is counted, up to MaxCommands of them
Did(cmd) ==
  /\ ncmds < MaxCommands
  /\ last_cmd' = cmd
  /\ ncmds' = ncmds + 1

\* play(): the guards in front of "Start fresh playback"
StartsFresh_AnyQueue(playing, queue) == ~playing

StartsFresh(playing, queue) == ~playing /\ queue # <<>>

\* the slot the new Thread object takes
FreeThread == CHOOSE t \in Threads : ~Live(t) /\ \A u \in 1..(t - 1) : Live(u)

Play ==
  /\ ui_pc = "idle"
  /\ IF is_paused
     THEN /\ is_paused' = FALSE
          /\ music' = MusicUnpause(music)
          /\ pause_event' = TRUE
          /\ Did("play")
          /\ UNCHANGED <<is_playing, stop_event, pc, stopped>>
     ELSE IF StartsFresh(is_playing, content_queue)
     THEN /\ \E t \in Threads : ~Live(t)
          /\ is_playing' = TRUE
          /\ is_paused' = FALSE
          /\ stop_event' = FALSE
          /\ pause_event' = TRUE
          /\ Goto(FreeThread, "while")
          /\ Did("play")
          /\ UNCHANGED <<music, stopped>>
     ELSE UNCHANGED <<is_playing, is_paused, stop_event, pause_event, pc,
                      music, history>>
  /\ UNCHANGED <<content_queue, current_index, skip_requested,
                 current_audio_file, manager, locals, ui_pc>>

\* if self.is_playing and not self.is_paused:
PauseAccepted_NoGuard(playing, paused) == TRUE

PauseAccepted(playing, paused) == playing /\ ~paused

Pause ==
  /\ ui_pc = "idle"
  /\ IF PauseAccepted(is_playing, is_paused)
     THEN /\ is_paused' = TRUE
          /\ pause_event' = FALSE
          /\ music' = MusicPause(music)
          /\ Did("pause")
     ELSE UNCHANGED <<is_paused, pause_event, music, last_cmd, ncmds>>
  /\ UNCHANGED <<is_playing, content_queue, current_index, stop_event,
                 skip_requested, current_audio_file, manager, pc, locals, ui_pc,
                 stopped>>

\* self.pause_event.set()  # Unblock if paused
StopUnblocks_Not(gate) == gate

StopUnblocks(gate) == TRUE

Stop ==
  /\ ui_pc = "idle"
  /\ stop_event' = TRUE
  /\ pause_event' = StopUnblocks(pause_event)
  /\ music' = "idle"
  /\ is_playing' = FALSE
  /\ is_paused' = FALSE
  /\ current_index' = 0
  /\ current_audio_file' = FALSE
  /\ VoiceReset
  /\ Did("stop")
  /\ stopped' = [t \in Threads |-> Live(t)]
  /\ UNCHANGED <<content_queue, skip_requested, pc, locals, ui_pc>>

SkipAccepted(playing) == playing

Skip ==
  /\ ui_pc = "idle"
  /\ IF SkipAccepted(is_playing)
     THEN /\ skip_requested' = TRUE
          /\ music' = "idle"
          /\ is_paused' = FALSE
          /\ pause_event' = (IF is_paused THEN TRUE ELSE pause_event)
          /\ Did("skip")
     ELSE UNCHANGED <<skip_requested, music, is_paused, pause_event, last_cmd, ncmds>>
  /\ UNCHANGED <<is_playing, content_queue, current_index, stop_event,
                 current_audio_file, manager, pc, locals, ui_pc, stopped>>

\* _on_fetch_complete(content, None): set_content(content), first assignment
SetContentQueue ==
  /\ ui_pc = "idle"
  /\ \E items \in Contents : content_queue' = items
  /\ ui_pc' = "set_index"
  /\ Did("load")
  /\ UNCHANGED <<is_playing, is_paused, current_index, stop_event, pause_event,
                 skip_requested, current_audio_file, manager, music, pc, locals,
                 stopped>>

\* set_content, second assignment, if it also cleared the voice assignments
SetContentIndex_Resets ==
  /\ ui_pc = "set_index"
  /\ current_index' = 0
  /\ ui_pc' = "reset"
  /\ VoiceReset
  /\ UNCHANGED <<is_playing, is_paused, content_queue, stop_event, pause_event,
                 skip_requested, current_audio_file, music, pc, locals, history>>

\* set_content, second assignment
SetContentIndex ==
  /\ ui_pc = "set_index"
  /\ current_index' = 0
  /\ ui_pc' = "reset"
  /\ UNCHANGED <<is_playing, is_paused, content_queue, stop_event, pause_event,
                 skip_requested, current_audio_file, manager, music, pc, locals,
                 history>>

\* _on_fetch_complete: voice_manager.reset()
FetchReset ==
  /\ ui_pc = "reset"
  /\ VoiceReset
  /\ ui_pc' = "idle"
  /\ UNCHANGED <<engine, music, pc, locals, history>>

\* ---- _speech_loop (one per thread started by play) ----------------------
SetLocal(f, t, x) == f' = [f EXCEPT ![t] = x]

\* what a loop step never touches
LoopFrame == UNCHANGED <<ui_pc, last_cmd, ncmds>>

\* the thread ends: its frame is gone
Die(t) ==
  /\ Goto(t, "dead")
  /\ seg' = [seg EXCEPT ![t] = NoSegment]
  /\ voice' = [voice EXCEPT ![t] = 0]
  /\ success' = [success EXCEPT ![t] = TRUE]
  /\ tmp' = [tmp EXCEPT ![t] = 0]
  /\ stopped' = [stopped EXCEPT ![t] = FALSE]

\* while self.current_index < len(self.content_queue)
LoopCond(index, queue) == index < Len(queue)

LoopWhile(t) ==
  /\ pc[t] = "while"
  /\ Goto(t, IF LoopCond(current_index, content_queue) THEN "stop1" ELSE "exit")
  /\ LoopFrame
  /\ UNCHANGED <<engine, manager, music, locals, stopped>>

\* if self.stop_event.is_set(): break   (before and after the pause gate)
LoopStopCheck(t) ==
  /\ pc[t] \in {"stop1", "stop2"}
  /\ Goto(t, IF stop_event THEN "exit" ELSE IF pc[t] = "stop1" THEN "gate" ELSE "get")
  /\ LoopFrame
  /\ UNCHANGED <<engine, manager, music, locals, stopped>>

\* self.pause_event.wait()
LoopGate(t) ==
  /\ pc[t] = "gate"
  /\ pause_event
  /\ Goto(t, "stop2")
  /\ LoopFrame
  /\ UNCHANGED <<engine, manager, music, locals, stopped>>

\* author, text = self.content_queue[self.current_index]
\* (an index outside the list raises IndexError, which ends the thread)
LoopGet(t) ==
  /\ pc[t] = "get"
  /\ IF current_index < Len(content_queue)
     THEN /\ SetLocal(seg, t, content_queue[current_index + 1])
          /\ Goto(t, "voice")
          /\ UNCHANGED <<voice, success, tmp, stopped>>
     ELSE Die(t)
  /\ LoopFrame
  /\ UNCHANGED <<engine, manager, music>>

\* voice_id, voice_name = self.voice_manager.get_voice_for_agent(author)
LoopVoice(t) ==
  /\ pc[t] = "voice"
  /\ \E v \in Voices :
       /\ GetVoiceForAgent(seg[t][1], v)
       /\ SetLocal(voice, t, v)
  /\ Goto(t, "status")
  /\ LoopFrame
  /\ UNCHANGED <<engine, music, seg, success, tmp, stopped>>

\* status_callback("[i+1/N] author (voice: name)"); text_callback(text)
\* The index and the length in the message are read from the fields again.
LoopStatus(t) ==
  /\ pc[t] = "status"
  /\ Goto(t, "gen")
  /\ LoopFrame
  /\ UNCHANGED <<engine, manager, music, locals, stopped>>

\* ---- _speak ---------------------------------------------------------------
\* return from _speak with the given result: success = self._speak(...)
Return(t, result) ==
  /\ SetLocal(success, t, result)
  /\ Goto(t, "skipchk")

\* self._cleanup_audio_file(); the new temp file is created and named by
\* current_audio_file; asyncio.run(self._generate_speech(...)) completes, or
\* raises and the except clause returns False.  author, text and voice are
\* not read after this call.
SpeakGenerate(t) ==
  /\ pc[t] = "gen"
  /\ current_audio_file' = TRUE
  /\ \/ Goto(t, "gen_stop") /\ UNCHANGED success
     \/ Return(t, FALSE)
  /\ seg' = [seg EXCEPT ![t] = NoSegment]
  /\ voice' = [voice EXCEPT ![t] = 0]
  /\ LoopFrame
  /\ UNCHANGED <<is_playing, is_paused, content_queue, current_index, stop_event,
                 pause_event, skip_requested, manager, music, tmp, stopped>>

\* if self.stop_event.is_set(): return False   (after generation)
SpeakStopCheck(t) ==
  /\ pc[t] = "gen_stop"
  /\ IF stop_event THEN Return(t, FALSE) ELSE Goto(t, "play") /\ UNCHANGED success
  /\ LoopFrame
  /\ UNCHANGED <<engine, manager, music, seg, voice, tmp, stopped>>

\* pygame.mixer.music.load(...); pygame.mixer.music.play()
SpeakPlay(t) ==
  /\ pc[t] = "play"
  /\ music' = "playing"
  /\ Goto(t, "busy")
  /\ LoopFrame
  /\ UNCHANGED <<engine, manager, locals, stopped>>

\* while pygame.mixer.music.get_busy(): ... return True
SpeakBusy(t) ==
  /\ pc[t] = "busy"
  /\ \E b \in GetBusy(music) :
       IF b THEN Goto(t, "poll_stop") /\ UNCHANGED success ELSE Return(t, TRUE)
  /\ LoopFrame
  /\ UNCHANGED <<engine, manager, music, seg, voice, tmp, stopped>>

\* if self.stop_event.is_set(): pygame.mixer.music.stop(); return False
SpeakPollStop(t) ==
  /\ pc[t] = "poll_stop"
  /\ IF stop_event
     THEN music' = "idle" /\ Return(t, FALSE)
     ELSE Goto(t, "poll_paused") /\ UNCHANGED <<music, success>>
  /\ LoopFrame
  /\ UNCHANGED <<engine, manager, seg, voice, tmp, stopped>>

\* if self.is_paused: ... else pygame.time.wait(100)
SpeakPollPaused(t) ==
  /\ pc[t] = "poll_paused"
  /\ Goto(t, IF is_paused THEN "poll_gate" ELSE "busy")
  /\ LoopFrame
  /\ UNCHANGED <<engine, manager, music, locals, stopped>>

\* self.pause_event.wait()
SpeakPollGate(t) ==
  /\ pc[t] = "poll_gate"
  /\ pause_event
  /\ Goto(t, "poll_stop2")
  /\ LoopFrame
  /\ UNCHANGED <<engine, manager, music, locals, stopped>>

\* if self.stop_event.is_set(): return False; then pygame.time.wait(100)
SpeakPollStop2(t) ==
  /\ pc[t] = "poll_stop2"
  /\ IF stop_event THEN Return(t, FALSE) ELSE Goto(t, "busy") /\ UNCHANGED success
  /\ LoopFrame
  /\ UNCHANGED <<engine, manager, music, seg, voice, tmp, stopped>>

\* ---- _speech_loop, after _speak -----------------------------------------
\* if self.skip_requested:
LoopSkipCheck(t) ==
  /\ pc[t] = "skipchk"
  /\ Goto(t, IF skip_requested THEN "skipclr" ELSE "failchk")
  /\ LoopFrame
  /\ UNCHANGED <<engine, manager, music, locals, stopped>>

\* self.skip_requested = False   (success is not read on this path)
LoopSkipClear(t) ==
  /\ pc[t] = "skipclr"
  /\ skip_requested' = FALSE
  /\ Goto(t, "skip_rd")
  /\ SetLocal(success, t, TRUE)
  /\ LoopFrame
  /\ UNCHANGED <<is_playing, is_paused, content_queue, current_index, stop_event,
                 pause_event, current_audio_file, manager, music, seg, voice, tmp,
                 stopped>>

\* self.current_index += 1: the read
LoopIndexRead(t) ==
  /\ pc[t] \in {"skip_rd", "adv_rd"}
  /\ SetLocal(tmp, t, current_index)
  /\ Goto(t, IF pc[t] = "skip_rd" THEN "skip_wr" ELSE "adv_wr")
  /\ LoopFrame
  /\ UNCHANGED <<engine, manager, music, seg, voice, success, stopped>>

\* the value self.current_index += 1 stores
Advance_Stay(i) == i

Advance(i) == i + 1

\* self.current_index += 1: the write; continue / next iteration
LoopIndexWrite(t) ==
  /\ pc[t] \in {"skip_wr", "adv_wr"}
  /\ current_index' = Advance(tmp[t])
  /\ SetLocal(tmp, t, 0)
  /\ Goto(t, "while")
  /\ LoopFrame
  /\ UNCHANGED <<is_playing, is_paused, content_queue, stop_event, pause_event,
                 skip_requested, current_audio_file, manager, music, seg, voice,
                 success, stopped>>

\* if not success or self.stop_event.is_set(): break
BreaksLoop_StopOnly(ok, stop) == stop

BreaksLoop(ok, stop) == ~ok \/ stop

LoopFailCheck(t) ==
  /\ pc[t] = "failchk"
  /\ Goto(t, IF BreaksLoop(success[t], stop_event) THEN "exit" ELSE "pausedchk")
  /\ LoopFrame
  /\ UNCHANGED <<engine, manager, music, locals, stopped>>

\* if not self.is_paused:
AdvancesWhen(paused) == ~paused

LoopPausedCheck(t) ==
  /\ pc[t] = "pausedchk"
  /\ Goto(t, IF AdvancesWhen(is_paused) THEN "adv_rd" ELSE "while")
  /\ LoopFrame
  /\ UNCHANGED <<engine, manager, music, locals, stopped>>

\* self.is_playing = False; self._cleanup_audio_file()
LoopExit(t) ==
  /\ pc[t] = "exit"
  /\ is_playing' = FALSE
  /\ current_audio_file' = FALSE
  /\ Goto(t, "finish")
  /\ LoopFrame
  /\ UNCHANGED <<is_paused, content_queue, current_index, stop_event, pause_event,
                 skip_requested, manager, music, locals, stopped>>

\* if self.status_callback and not self.stop_event.is_set():
EmitsFinished(stop) == ~stop

\* ... self.status_callback("Finished reading"); the thread ends
LoopFinish(t) ==
  /\ pc[t] = "finish"
  /\ Die(t)
  /\ LoopFrame
  /\ UNCHANGED <<engine, manager, music>>

\* ---- src/moltreader_mac_tts.py ------------------------------------------
\* The macOS variant has the same fields, the same play() and the same
\* _speech_loop around _speak; it has no mixer (music stays "idle") and
\* speaks through a `say` subprocess held in current_process.

\* self.current_process.terminate(), when current_process is not None
Terminate(p) ==
  IF current_process # 0 /\ p[current_process] = "running"
  THEN [p EXCEPT ![current_process] = "terminated"]
  ELSE p

\* pause(): as Pause, and the process is terminated
MacPause ==
  /\ Pause
  /\ proc' = IF PauseAccepted(is_playing, is_paused) THEN Terminate(proc) ELSE proc
  /\ UNCHANGED current_process

\* stop(): as Stop, and the process is terminated and forgotten
MacStop ==
  /\ Stop
  /\ proc' = Terminate(proc)
  /\ current_process' = 0

\* skip(): as Skip, and the process is terminated and forgotten
MacSkip ==
  /\ Skip
  /\ proc' = IF SkipAccepted(is_playing) THEN Terminate(proc) ELSE proc
  /\ current_process' = IF SkipAccepted(is_playing) THEN 0 ELSE current_process

\* the `say` process of thread t comes to the end of the text
SayExits(t) ==
  /\ proc[t] = "running"
  /\ proc' = [proc EXCEPT ![t] = "exited"]
  /\ UNCHANGED <<engine, manager, music, pc, locals, ui_pc, history, current_process>>

\* self.current_process = subprocess.Popen(['say', ...]), or Popen raises
MacPopen(t) ==
  /\ pc[t] = "gen"
  /\ \/ /\ Goto(t, "mac_wait")
        /\ proc' = [proc EXCEPT ![t] = "running"]
        /\ current_process' = t
        /\ UNCHANGED success
     \/ /\ Return(t, FALSE)
        /\ UNCHANGED say
  /\ seg' = [seg EXCEPT ![t] = NoSegment]
  /\ voice' = [voice EXCEPT ![t] = 0]
  /\ LoopFrame
  /\ UNCHANGED <<engine, manager, music, tmp, stopped>>

\* self.current_process.wait(): the field is read (None raises, and the
\* except clause returns False) ...
MacWait(t) ==
  /\ pc[t] = "mac_wait"
  /\ IF current_process = 0
     THEN Return(t, FALSE) /\ UNCHANGED tmp
     ELSE Goto(t, "mac_join") /\ SetLocal(tmp, t, current_process) /\ UNCHANGED success
  /\ LoopFrame
  /\ UNCHANGED <<engine, manager, music, seg, voice, stopped, say>>

\* ... and the call blocks until that process has ended
MacJoin(t) ==
  /\ pc[t] = "mac_join"
  /\ proc[tmp[t]] # "running"
  /\ Goto(t, "mac_rc")
  /\ SetLocal(tmp, t, 0)
  /\ LoopFrame
  /\ UNCHANGED <<engine, manager, music, seg, voice, success, stopped, say>>

\* return_code = self.current_process.returncode;
\* self.current_process = None; return return_code == 0
MacReturnCode(t) ==
  /\ pc[t] = "mac_rc"
  /\ IF current_process = 0
     THEN Return(t, FALSE)
     ELSE Return(t, proc[current_process] = "exited")
  /\ current_process' = 0
  /\ LoopFrame
  /\ UNCHANGED <<engine, manager, music, seg, voice, tmp, stopped, proc>>

\* ---- observers -----------------------------------------------------------
\* the step is command c taking effect
Accepted(c) == ncmds' = ncmds + 1 /\ last_cmd' = c

\* the step is thread t calling status_callback with a progress message
EmitsProgress(t) == pc[t] = "status" /\ pc'[t] = "gen"

\* thread t hands "Finished reading" to status_callback
EmitsFinishedReading(t) ==
  pc[t] = "finish" /\ pc'[t] = "dead" /\ EmitsFinished(stop_event)

\* the step is a _speak of thread t returning False
SpeakFails(t) == success[t] /\ ~success'[t]

\* what status_callback receives: "[pos/of] author (voice: voice)", or
\* "Finished reading"; "failed" stands for a _speak that returned False
ProgressMessage(t) ==
  [kind |-> "progress", pos |-> current_index + 1, of |-> Len(content_queue),
   author |-> seg[t][1], voice |-> voice[t]]

Message(k) == [kind |-> k, pos |-> 0, of |-> 0, author |-> "", voice |-> 0]

\* the step is thread t storing the index it advanced because of a skip
SkipAdvances(t) == pc[t] = "skip_wr" /\ pc'[t] = "while"

\* the statements of _speak
SpeakPcs == {"gen", "gen_stop", "play", "busy", "poll_stop", "poll_paused",
             "poll_gate", "poll_stop2", "mac_wait", "mac_join", "mac_rc"}

Speaking == \E t \in Threads : pc[t] \in SpeakPcs

\* run after a step that is a command taking effect
NextRun ==
  IF Accepted("load") THEN (IF run \in {"init", "loaded"} THEN "loaded" ELSE "off")
  ELSE IF Accepted("play") THEN (IF run = "loaded" THEN "played" ELSE "off")
  ELSE IF Accepted("skip")
       THEN (IF run = "played" /\ Speaking /\ current_index < Len(content_queue) - 1
             THEN "skipped" ELSE "off")
  ELSE "off"

\* a command taking effect starts the observations anew; any other step is
\* observed
Observe ==
  IF ncmds' # ncmds
  THEN /\ owed' = IF Accepted("skip") THEN owed + 1
                  ELSE IF Accepted("stop") \/ Accepted("load") THEN 0
                  ELSE owed
       /\ pskip' = IF Accepted("skip") /\ is_paused /\ music = "paused"
                   THEN current_index ELSE -1
       /\ run' = NextRun
       /\ skip_at' = IF NextRun = "skipped" THEN current_index ELSE -1
       /\ log' = <<>>
       /\ heard' = <<>>
  ELSE /\ owed' = IF owed > 0 /\ \E t \in Threads : SkipAdvances(t)
                  THEN owed - 1 ELSE owed
       /\ UNCHANGED <<pskip, run, skip_at>>
       /\ log' = IF run = "skipped" /\ \E t \in Threads : EmitsProgress(t)
                 THEN Append(log, current_index) ELSE log
       /\ heard' = IF run # "played" THEN heard
                   ELSE IF \E t \in Threads : EmitsProgress(t)
                   THEN Append(heard, ProgressMessage(CHOOSE t \in Threads : EmitsProgress(t)))
                   ELSE IF \E t \in Threads : EmitsFinishedReading(t)
                   THEN Append(heard, Message("finished"))
                   ELSE IF \E t \in Threads : SpeakFails(t)
                   THEN Append(heard, Message("failed"))
                   ELSE heard

\* the step is thread t calling _speak
SpeakCalled(t) == pc[t] = "gen" /\ pc'[t] # "gen"

\* text_with_intro = f"{author} says, {text}"; success = self._speak(text_with_intro, voice_id)
TextWithIntro(s) == <<s[1], " says, ", s[2]>>

\* macOS variant: success = self._speak(text, voice)
MacText(s) == <<s[2]>>

\* said, for the text the variant hands to _speak
ObserveSpeak(variant) ==
  said' = IF ncmds' # ncmds THEN NoRequest
          ELSE IF run = "played" /\ \E t \in Threads : SpeakCalled(t)
          THEN LET t == CHOOSE u \in Threads : SpeakCalled(u)
               IN <<IF variant = "mac" THEN MacText(seg[t]) ELSE TextWithIntro(seg[t]),
                    voice[t]>>
          ELSE said

\* the step is a play() that starts a _speech_loop thread
StartsThread == Accepted("play") /\ pc' # pc

\* shown and failed
ObserveProgress ==
  /\ shown' = IF StartsThread THEN -1
              ELSE IF Accepted("stop") \/ Accepted("load") THEN -2
              ELSE IF shown # -2 /\ \E t \in Threads : EmitsProgress(t)
              THEN current_index
              ELSE shown
  /\ failed' = IF StartsThread THEN FALSE
               ELSE IF \E t \in Threads : SpeakFails(t) THEN TRUE
               ELSE failed

\* ---- the system ---------------------------------------------------------
\* src/moltreader.py has no `say` process
ObserveEdge ==
  Observe /\ ObserveSpeak("edge") /\ ObserveProgress /\ UNCHANGED <<say, apart>>

Next ==
  \/ (Play /\ ObserveEdge)
  \/ (Pause /\ ObserveEdge)
  \/ (Stop /\ ObserveEdge)
  \/ (Skip /\ ObserveEdge)
  \/ (SetContentQueue /\ ObserveEdge)
  \/ (SetContentIndex /\ ObserveEdge)
  \/ (FetchReset /\ ObserveEdge)
  \/ (AudioEnds /\ ObserveEdge)
  \/ \E t \in Threads :
       \/ (LoopWhile(t) /\ ObserveEdge)
       \/ (LoopStopCheck(t) /\ ObserveEdge)
       \/ (LoopGate(t) /\ ObserveEdge)
       \/ (LoopGet(t) /\ ObserveEdge)
       \/ (LoopVoice(t) /\ ObserveEdge)
       \/ (LoopStatus(t) /\ ObserveEdge)
       \/ (SpeakGenerate(t) /\ ObserveEdge)
       \/ (SpeakStopCheck(t) /\ ObserveEdge)
       \/ (SpeakPlay(t) /\ ObserveEdge)
       \/ (SpeakBusy(t) /\ ObserveEdge)
       \/ (SpeakPollStop(t) /\ ObserveEdge)
       \/ (SpeakPollPaused(t) /\ ObserveEdge)
       \/ (SpeakPollGate(t) /\ ObserveEdge)
       \/ (SpeakPollStop2(t) /\ ObserveEdge)
       \/ (LoopSkipCheck(t) /\ ObserveEdge)
       \/ (LoopSkipClear(t) /\ ObserveEdge)
       \/ (LoopIndexRead(t) /\ ObserveEdge)
       \/ (LoopIndexWrite(t) /\ ObserveEdge)
       \/ (LoopFailCheck(t) /\ ObserveEdge)
       \/ (LoopPausedCheck(t) /\ ObserveEdge)
       \/ (LoopExit(t) /\ ObserveEdge)
       \/ (LoopFinish(t) /\ ObserveEdge)

Spec == Init /\ [][Next]_vars

\* a step of the loop thread t
ThreadStep(t) ==
  \/ (LoopWhile(t) /\ ObserveEdge)
  \/ (LoopStopCheck(t) /\ ObserveEdge)
  \/ (LoopGate(t) /\ ObserveEdge)
  \/ (LoopGet(t) /\ ObserveEdge)
  \/ (LoopVoice(t) /\ ObserveEdge)
  \/ (LoopStatus(t) /\ ObserveEdge)
  \/ (SpeakGenerate(t) /\ ObserveEdge)
  \/ (SpeakStopCheck(t) /\ ObserveEdge)
  \/ (SpeakPlay(t) /\ ObserveEdge)
  \/ (SpeakBusy(t) /\ ObserveEdge)
  \/ (SpeakPollStop(t) /\ ObserveEdge)
  \/ (SpeakPollPaused(t) /\ ObserveEdge)
  \/ (SpeakPollGate(t) /\ ObserveEdge)
  \/ (SpeakPollStop2(t) /\ ObserveEdge)
  \/ (LoopSkipCheck(t) /\ ObserveEdge)
  \/ (LoopSkipClear(t) /\ ObserveEdge)
  \/ (LoopIndexRead(t) /\ ObserveEdge)
  \/ (LoopIndexWrite(t) /\ ObserveEdge)
  \/ (LoopFailCheck(t) /\ ObserveEdge)
  \/ (LoopPausedCheck(t) /\ ObserveEdge)
  \/ (LoopExit(t) /\ ObserveEdge)
  \/ (LoopFinish(t) /\ ObserveEdge)

\* a thread that can take a step is scheduled in the end, and the calls it
\* makes that do not wait on an event (edge-tts, the mixer) return
FairSpec == Spec /\ \A t \in Threads : WF_vars(ThreadStep(t))

\* ... and the audio of every utterance reaches its end
LiveSpec == FairSpec /\ WF_vars(AudioEnds /\ ObserveEdge)

\* the macOS variant
ObserveMac ==
  Observe /\ ObserveSpeak("mac") /\ ObserveProgress /\ UNCHANGED <<say, apart>>

\* a step of the macOS variant that tells what becomes of the process
ObserveSay == Observe /\ ObserveSpeak("mac") /\ ObserveProgress /\ UNCHANGED apart

MacNext ==
  \/ (Play /\ ObserveMac)
  \/ (MacPause /\ ObserveSay)
  \/ (MacStop /\ ObserveSay)
  \/ (MacSkip /\ ObserveSay)
  \/ (SetContentQueue /\ ObserveMac)
  \/ (SetContentIndex /\ ObserveMac)
  \/ (FetchReset /\ ObserveMac)
  \/ \E t \in Threads :
       \/ (SayExits(t) /\ ObserveSay)
       \/ (LoopWhile(t) /\ ObserveMac)
       \/ (LoopStopCheck(t) /\ ObserveMac)
       \/ (LoopGate(t) /\ ObserveMac)
       \/ (LoopGet(t) /\ ObserveMac)
       \/ (LoopVoice(t) /\ ObserveMac)
       \/ (LoopStatus(t) /\ ObserveMac)
       \/ (MacPopen(t) /\ ObserveSay)
       \/ (MacWait(t) /\ ObserveSay)
       \/ (MacJoin(t) /\ ObserveSay)
       \/ (MacReturnCode(t) /\ ObserveSay)
       \/ (LoopSkipCheck(t) /\ ObserveMac)
       \/ (LoopSkipClear(t) /\ ObserveMac)
       \/ (LoopIndexRead(t) /\ ObserveMac)
       \/ (LoopIndexWrite(t) /\ ObserveMac)
       \/ (LoopFailCheck(t) /\ ObserveMac)
       \/ (LoopPausedCheck(t) /\ ObserveMac)
       \/ (LoopExit(t) /\ ObserveMac)
       \/ (LoopFinish(t) /\ ObserveMac)

MacSpec == Init /\ [][MacNext]_vars

\* ---- a voice manager on its own ------------------------------------------
\* what the calls leave alone
NoEngine ==
  UNCHANGED <<engine, music, pc, locals, ui_pc, history, observers, say, web,
              fetched>>

\* voice = voice_manager.get_voice_for_agent(a), for any agent name
CallGetVoiceForAgent ==
  /\ Len(calls) < MaxCalls
  /\ \E a \in Agents, v \in Voices :
       /\ GetVoiceForAgent(a, v)
       /\ calls' = Append(calls, <<a, v>>)
  /\ NoEngine
  /\ UNCHANGED available_voices

\* voice_manager.reset()
CallReset ==
  /\ Len(calls) < MaxCalls
  /\ VoiceReset
  /\ calls' = Append(calls, <<"", 0>>)
  /\ NoEngine
  /\ UNCHANGED available_voices

VoiceNext == CallGetVoiceForAgent \/ CallReset

VoiceSpec == Init /\ [][VoiceNext]_vars

\* ---- MacOSVoiceManager on its own -------------------------------------------
\* voice names `say -v ?` can list: two English ones and one that
\* _is_english_voice does not know
SayVoices == {"Alex", "Samantha", "Anna"}

IsEnglishVoice(v) == v \in {"Alex", "Samantha", "Victoria", "Tom", "Karen", "Daniel"}

\* the voice names parsed from the output of `say -v ?`: any listing
\* without repetition, of any length
Listings ==
  {l \in UNION {[1..n -> SayVoices] : n \in 0..Cardinality(SayVoices)} :
     \A i, j \in DOMAIN l : l[i] = l[j] => i = j}

\* except subprocess.CalledProcessError:
Fallback == <<"Alex", "Samantha", "Victoria", "Tom", "Karen", "Daniel">>

\* _get_available_voices() for a listing: the English voices if there is
\* one, else all of them
GetAvailableVoices(voices) ==
  LET english_voices == SelectSeq(voices, IsEnglishVoice)
  IN IF english_voices # <<>> THEN english_voices ELSE voices

\* MacOSVoiceManager(): `say -v ?` succeeds with some listing, or fails
MacVoiceInit ==
  /\ Constructed
  /\ \/ \E voices \in Listings : available_voices = GetAvailableVoices(voices)
     \/ available_voices = Fallback

MacUnassigned == SelectSeq(available_voices, LAMBDA v : v \notin Range(assigned_voices))

\* what random.choice is given
MacVoiceChoices == IF MacUnassigned # <<>> THEN MacUnassigned ELSE available_voices

\* voice = voice_manager.get_voice_for_agent(a); random.choice of an empty
\* list raises IndexError, before anything is recorded
MacCallGetVoiceForAgent ==
  /\ Len(calls) < MaxCalls
  /\ \E a \in Agents :
       IF a \in DOMAIN agent_voices
       THEN /\ calls' = Append(calls, <<a, agent_voices[a]>>)
            /\ UNCHANGED manager
       ELSE IF MacVoiceChoices = <<>>
       THEN /\ calls' = Append(calls, <<a, "IndexError">>)
            /\ UNCHANGED manager
       ELSE \E v \in Range(MacVoiceChoices) :
              /\ agent_voices' = (a :> v) @@ agent_voices
              /\ assigned_voices' = Append(assigned_voices, v)
              /\ calls' = Append(calls, <<a, v>>)
  /\ NoEngine
  /\ UNCHANGED available_voices

\* voice_manager.reset()
MacCallReset ==
  /\ Len(calls) < MaxCalls
  /\ VoiceReset
  /\ calls' = Append(calls, <<"", "">>)
  /\ NoEngine
  /\ UNCHANGED available_voices

MacVoiceNext == MacCallGetVoiceForAgent \/ MacCallReset

MacVoiceSpec == MacVoiceInit /\ [][MacVoiceNext]_vars

\* ---- src/app.py: the web variant ------------------------------------------
\* The Flask development server answers each request in a thread of its own
\* and `sessions` is a module-level dict without a lock.  index, get_audio
\* and reset_session are one step each; load_url is received, then fetches the
\* page (seconds), then writes the store in two steps.  The session cookie
\* of a caller is what the last response it received carries: Flask sends it
\* with every response of a request that assigned session['session_id'].
Callers == 1..MaxCallers
LoadIds == 1..MaxLoads

\* the desktop programs take no part
NoDesktop ==
  UNCHANGED <<engine, manager, music, pc, locals, ui_pc, history, observers, say,
              calls, available_voices, fetched>>

\* str(uuid.uuid4())
NewKey == nkeys + 1

\* get_voice_for_agent(a) of app.py on manager m: the voices it may return
WebVoiceChoices(m, a) ==
  IF a \in DOMAIN m.agent_voices THEN {m.agent_voices[a]}
  ELSE VoiceChoices(m.assigned_voices)

\* ... and the manager after it returned v
WebAssign(m, a, v) ==
  IF a \in DOMAIN m.agent_voices THEN m
  ELSE [agent_voices |-> (a :> v) @@ m.agent_voices,
        assigned_voices |-> Append(m.assigned_voices, v)]

\* for i, (author, text) in enumerate(content): get_voice_for_agent(author),
\* from item i on: the managers the loop can end with
RECURSIVE AssignAll(_, _, _)
AssignAll(m, content, i) ==
  IF i > Len(content) THEN {m}
  ELSE UNION {AssignAll(WebAssign(m, content[i][1], v), content, i + 1) :
                v \in WebVoiceChoices(m, content[i][1])}

\* index(): a session cookie is issued to a caller that has none
Index(c) ==
  /\ cookie[c] = 0
  /\ nkeys < MaxKeys
  /\ cookie' = [cookie EXCEPT ![c] = NewKey]
  /\ nkeys' = NewKey
  /\ reply' = [reply EXCEPT ![c] = "page"]
  /\ UNCHANGED <<sessions, managers, loads, after_reset>>
  /\ UNCHANGED audio
  /\ NoDesktop

\* load_url() without a url: 400, the session is not touched
LoadNoUrl(c) ==
  /\ reply' = [reply EXCEPT ![c] = "No URL provided"]
  /\ UNCHANGED <<sessions, managers, cookie, nkeys, loads, after_reset>>
  /\ UNCHANGED audio
  /\ NoDesktop

\* load_url(): session_id = session.get('session_id', str(uuid.uuid4()));
\* the fetch starts
LoadBegin(c) ==
  /\ \E r \in LoadIds :
       /\ loads[r].pc = "new"
       /\ \A q \in 1..(r - 1) : loads[q].pc # "new"
       /\ IF cookie[c] # 0
          THEN /\ loads' = [loads EXCEPT ![r].pc = "fetch", ![r].caller = c,
                                         ![r].sid = cookie[c]]
               /\ UNCHANGED nkeys
          ELSE /\ nkeys < MaxKeys
               /\ loads' = [loads EXCEPT ![r].pc = "fetch", ![r].caller = c,
                                         ![r].sid = NewKey]
               /\ nkeys' = NewKey
  /\ UNCHANGED <<sessions, managers, cookie, reply, after_reset>>
  /\ UNCHANGED audio
  /\ NoDesktop

\* load_url() calling get_session_data(session_id) before the fetch
LoadFetch_StoresFirst(r) ==
  /\ loads[r].pc = "fetch"
  /\ \/ /\ \E content \in Contents :
             loads' = [loads EXCEPT ![r].pc = "store", ![r].content = content]
        /\ UNCHANGED <<cookie, reply, sessions>>
     \/ /\ loads' = [loads EXCEPT ![r].pc = "done"]
        /\ cookie' = [cookie EXCEPT ![loads[r].caller] = loads[r].sid]
        /\ reply' = [reply EXCEPT ![loads[r].caller] = "fetch error"]
        /\ sessions' = IF loads[r].sid \in DOMAIN sessions THEN sessions
                       ELSE (loads[r].sid :> [obj |-> r, content |-> <<>>, vm |-> r])
                              @@ sessions
  /\ UNCHANGED <<managers, nkeys, after_reset>>
  /\ UNCHANGED audio
  /\ NoDesktop

\* content, error = scraper.fetch_page(url); an error is answered with 400,
\* and the response carries the session cookie
LoadFetch(r) ==
  /\ loads[r].pc = "fetch"
  /\ \/ /\ \E content \in Contents :
             loads' = [loads EXCEPT ![r].pc = "store", ![r].content = content]
        /\ UNCHANGED <<cookie, reply>>
     \/ /\ loads' = [loads EXCEPT ![r].pc = "done"]
        /\ cookie' = [cookie EXCEPT ![loads[r].caller] = loads[r].sid]
        /\ reply' = [reply EXCEPT ![loads[r].caller] = "fetch error"]
  /\ UNCHANGED <<sessions, managers, nkeys, after_reset>>
  /\ UNCHANGED audio
  /\ NoDesktop

\* voice_manager = EdgeTTSVoiceManager(); session_data = get_session_data(..);
\* session_data['content'] = content; session_data['voice_manager'] = ...
\* get_session_data makes a new entry only when the key has none.
LoadStore(r) ==
  /\ loads[r].pc = "store"
  /\ LET key == loads[r].sid
         object == IF key \in DOMAIN sessions THEN sessions[key].obj ELSE r
     IN /\ sessions' = (key :> [obj |-> object, content |-> loads[r].content, vm |-> r])
                         @@ sessions
        /\ loads' = [loads EXCEPT ![r].pc = "assign", ![r].obj = object]
  /\ after_reset' = [after_reset EXCEPT ![loads[r].caller] = FALSE]
  /\ UNCHANGED <<managers, cookie, nkeys, reply>>
  /\ UNCHANGED audio
  /\ NoDesktop

\* load_url() storing the manager again under the key the caller's cookie
\* holds by then: sessions[session['session_id']]['voice_manager'] = ...
LoadAssign_ByCookie(r) ==
  /\ loads[r].pc = "assign"
  /\ LET key == cookie[loads[r].caller]
         c == loads[r].caller
     IN /\ \E m \in AssignAll(managers[r], loads[r].content, 1) :
             managers' = [managers EXCEPT ![r] = m]
        /\ sessions' = IF key \in DOMAIN sessions
                       THEN [sessions EXCEPT ![key].vm = r]
                       ELSE sessions
        /\ cookie' = [cookie EXCEPT ![c] = loads[r].sid]
        /\ reply' = [reply EXCEPT ![c] = "loaded"]
        /\ after_reset' = [after_reset EXCEPT ![c] = FALSE]
  /\ loads' = [loads EXCEPT ![r].pc = "done"]
  /\ UNCHANGED nkeys
  /\ UNCHANGED audio
  /\ NoDesktop

\* the voices of the items are assigned; session_data['voice_manager'] is
\* stored again, in the dict obtained before; the response
LoadAssign(r) ==
  /\ loads[r].pc = "assign"
  /\ LET key == loads[r].sid
         c == loads[r].caller
     IN /\ \E m \in AssignAll(managers[r], loads[r].content, 1) :
             managers' = [managers EXCEPT ![r] = m]
        /\ sessions' = IF key \in DOMAIN sessions /\ sessions[key].obj = loads[r].obj
                       THEN [sessions EXCEPT ![key].vm = r]
                       ELSE sessions
        /\ cookie' = [cookie EXCEPT ![c] = key]
        /\ reply' = [reply EXCEPT ![c] = "loaded"]
        /\ after_reset' = [after_reset EXCEPT ![c] = FALSE]
  /\ loads' = [loads EXCEPT ![r].pc = "done"]
  /\ UNCHANGED nkeys
  /\ UNCHANGED audio
  /\ NoDesktop

\* get_audio(index): what it answers
AudioResponse(c, index) ==
  IF cookie[c] = 0 \/ cookie[c] \notin DOMAIN sessions THEN "Session not found"
  ELSE IF index < 0 \/ index >= Len(sessions[cookie[c]].content) THEN "Invalid index"
  ELSE "audio"

\* get_audio(index) with get_session_data(session_id) for sessions[session_id]
GetAudio_GetSessionData(c) ==
  /\ \E index \in -1..MaxLen :
       LET key == cookie[c]
           made == IF key = 0 \/ key \in DOMAIN sessions THEN sessions
                   ELSE (key :> [obj |-> 0, content |-> <<>>, vm |-> 1]) @@ sessions
       IN /\ sessions' = made
          /\ reply' = [reply EXCEPT ![c] = AudioResponse(c, index)]
          /\ IF AudioResponse(c, index) = "audio"
             THEN LET entry == sessions[key]
                      author == entry.content[index + 1][1]
                  IN \E v \in WebVoiceChoices(managers[entry.vm], author) :
                       /\ managers' = [managers EXCEPT
                                        ![entry.vm] = WebAssign(managers[entry.vm], author, v)]
                       /\ audio' = [audio EXCEPT ![c] = [index |-> index, voice |-> v]]
             ELSE /\ UNCHANGED managers
                  /\ audio' = [audio EXCEPT ![c] = [index |-> index, voice |-> 0]]
  /\ UNCHANGED <<cookie, nkeys, loads, after_reset>>
  /\ NoDesktop

\* get_audio(index); from_dict hands the stored dicts to the manager, so a
\* voice assigned here is assigned in the stored manager
GetAudio(c) ==
  /\ \E index \in -1..MaxLen :
       /\ reply' = [reply EXCEPT ![c] = AudioResponse(c, index)]
       /\ IF AudioResponse(c, index) = "audio"
          THEN LET entry == sessions[cookie[c]]
                   author == entry.content[index + 1][1]
               IN \E v \in WebVoiceChoices(managers[entry.vm], author) :
                    /\ managers' = [managers EXCEPT
                                     ![entry.vm] = WebAssign(managers[entry.vm], author, v)]
                    /\ audio' = [audio EXCEPT ![c] = [index |-> index, voice |-> v]]
          ELSE /\ UNCHANGED managers
               /\ audio' = [audio EXCEPT ![c] = [index |-> index, voice |-> 0]]
  /\ UNCHANGED <<sessions, cookie, nkeys, loads, after_reset>>
  /\ NoDesktop

\* reset_session()
ResetSession(c) ==
  /\ nkeys < MaxKeys
  /\ sessions' = [k \in DOMAIN sessions \ {cookie[c]} |-> sessions[k]]
  /\ cookie' = [cookie EXCEPT ![c] = NewKey]
  /\ nkeys' = NewKey
  /\ reply' = [reply EXCEPT ![c] = "reset"]
  /\ after_reset' = [after_reset EXCEPT ![c] = TRUE]
  /\ UNCHANGED <<managers, loads>>
  /\ UNCHANGED audio
  /\ NoDesktop

WebNext ==
  \/ \E c \in Callers : Index(c)
  \/ \E c \in Callers : LoadNoUrl(c)
  \/ \E c \in Callers : LoadBegin(c)
  \/ \E r \in LoadIds : LoadFetch(r)
  \/ \E r \in LoadIds : LoadStore(r)
  \/ \E r \in LoadIds : LoadAssign(r)
  \/ \E c \in Callers : GetAudio(c)
  \/ \E c \in Callers : ResetSession(c)

WebSpec == Init /\ [][WebNext]_vars

\* ---- MoltbookScraper.fetch_page on its own --------------------------------
\* A url is the list of its parts: scheme, host, "/" and the rest.  The host
\* is moltbook.com or another one, and the rest may spell any text.
Hosts == {"moltbook.com", "evil.example"}
Rests == {"post", "moltbook.com"}
Urls == {<<"https://", h, "/", r>> : h \in Hosts, r \in Rests}

\* text in url, for a text that is one part
InUrl(text, url) == \E i \in DOMAIN url : url[i] = text

\* the host the browser is sent to
Host(url) == url[2]

\* what page.goto meets: the page loads, the 30 s run out, or another
\* Playwright error (name not resolved, connection refused)
Nets == {"ok", "timeout", "error"}

Pages == [title : BOOLEAN, container : BOOLEAN, comments : 0..MaxLen]

\* _fetch_with_playwright(url): the html, or the exception raised;
\* wait_for_selector('h1.text-xl') times out on a page without the title
FetchWithPlaywright(net, page) ==
  IF net = "timeout" THEN "PlaywrightTimeout"
  ELSE IF net = "error" THEN "Exception"
  ELSE IF ~page.title THEN "PlaywrightTimeout"
  ELSE "html"

\* _find_main_post(soup): None without title or container
FindMainPost(page) ==
  IF page.title /\ page.container THEN <<<<"alice", "hi">>>> ELSE <<>>

\* _find_comments(soup)
FindComments(page) == [i \in 1..page.comments |-> <<SpeakerAt(i + 1), "hi">>]

\* _extract_content(soup)
ExtractContent(page) == FindMainPost(page) \o FindComments(page)

\* fetch_page(url) -> (content, error)
FetchPage(url, net, page) ==
  IF ~InUrl("moltbook.com", url)
  THEN [content |-> <<>>, error |-> "URL must be from moltbook.com"]
  ELSE IF FetchWithPlaywright(net, page) = "PlaywrightTimeout"
  THEN [content |-> <<>>, error |-> "Page load timed out. Please try again."]
  ELSE IF FetchWithPlaywright(net, page) = "Exception"
  THEN [content |-> <<>>, error |-> "Error fetching page"]
  ELSE IF ExtractContent(page) = <<>>
  THEN [content |-> <<>>, error |-> "No posts or comments found on this page"]
  ELSE [content |-> ExtractContent(page), error |-> None]

\* content, error = scraper.fetch_page(url), for any url and any page
CallFetchPage ==
  /\ \E url \in Urls, net \in Nets, page \in Pages :
       fetched' = [url |-> url, net |-> net, page |-> page,
                   content |-> FetchPage(url, net, page).content,
                   error |-> FetchPage(url, net, page).error]
  /\ UNCHANGED <<engine, manager, music, pc, locals, ui_pc, history, observers,
                 say, calls, available_voices, web>>

FetchNext == CallFetchPage

FetchSpec == Init /\ [][FetchNext]_vars

TypeOK ==
  /\ is_playing \in BOOLEAN /\ is_paused \in BOOLEAN
  /\ stop_event \in BOOLEAN /\ pause_event \in BOOLEAN
  /\ skip_requested \in BOOLEAN /\ current_audio_file \in BOOLEAN
  /\ content_queue \in Contents \cup {<<>>}
  /\ current_index \in Nat
  /\ music \in {"idle", "playing", "paused"}
  /\ ui_pc \in {"idle", "set_index", "reset"}
  /\ ncmds \in 0..MaxCommands
  /\ owed \in 0..MaxCommands
  /\ pskip \in -1..MaxLen /\ skip_at \in -1..MaxLen
  /\ run \in {"init", "loaded", "played", "skipped", "off"}
  /\ proc \in [Threads -> {"none", "running", "exited", "terminated"}]
  /\ current_process \in 0..MaxThreads

\* ---- properties ---------------------------------------------------------
\* thread t takes a step
Steps(t) == pc'[t] # pc[t]

\* C1: after stop(), once every consumer loop has exited, the controller is
\* Idle (not playing, not paused) and current_index is 0.
C1_StopReturnsToIdle ==
  (last_cmd = "stop" /\ LiveThreads = {}) =>
    (~is_playing /\ ~is_paused /\ current_index = 0)

\* C2: at most one consumer loop thread is executing at any time.
C2_OneLoopAtATime == Cardinality(LiveThreads) <= 1

\* the run ended by exhaustion: stop was not requested and every loop is at
\* (or past) the test of the while condition
RunExhausted ==
  /\ ~stop_event
  /\ \A t \in Threads : pc[t] \in {"dead", "while", "exit", "finish"}

\* C3: 0 <= current_index <= len(content_queue), and current_index equals the
\* length of a loaded queue only when the run has ended by exhaustion.  (Read
\* between commands: the two assignments of set_content are not looked into.)
C3_IndexInvariant ==
  ui_pc = "idle" =>
    /\ 0 <= current_index
    /\ current_index <= Len(content_queue)
    /\ (content_queue # <<>> /\ current_index = Len(content_queue)) => RunExhausted

\* no loop is about to honour a skip request
NoSkipPending ==
  /\ ~skip_requested
  /\ \A t \in Threads : pc[t] \notin {"skipclr", "skip_rd", "skip_wr"}

\* C4: from the moment pause() takes effect until the next command, with no
\* skip pending, no step changes current_index.
C4_PauseHoldsIndex ==
  [][(last_cmd = "pause" /\ last_cmd' = "pause" /\ NoSkipPending)
       => current_index' = current_index]_vars

\* C5: when the commands are loads, one play() and then a single skip()
\* accepted while segment i is being spoken, i < N-1, the progress callbacks
\* after the skip are for i+1, i+2, ... in that order: the next one is for
\* i+1, it is emitted once, and segment i is not announced again.
C5_SkipMovesToNext ==
  run = "skipped" => \A k \in 1..Len(log) : log[k] = skip_at + k

\* the skip was accepted during segment 0 of 2, the loop has honoured it and
\* the one progress callback since is the one for segment 1
C5_Witness ==
  /\ run = "skipped" /\ skip_at = 0
  /\ log = <<1>>
  /\ current_index = 1
  /\ ~skip_requested

\* C6: every accepted skip() is answered by one advance of current_index:
\* when no skip is pending any more, none is left unanswered (stop and load
\* cancel the count).
C6_EachSkipAdvancesOnce == NoSkipPending => owed = 0

\* C7: after a skip() accepted while paused in the middle of an utterance,
\* and with no further command, no loop announces and speaks the segment
\* that was current when skip() was called.
C7_SkippedNotSpokenAgain ==
  [][\A t \in Threads :
       (pskip >= 0 /\ EmitsProgress(t)) => current_index # pskip]_vars

\* C8: a consumer loop that stop() was issued to never emits "Finished reading".
C8_StoppedNeverFinishes ==
  [][\A t \in Threads : EmitsFinishedReading(t) => ~stopped[t]]_vars

\* C9: "Finished reading" is emitted only with the queue exhausted, that is
\* with current_index = len(content_queue); read for the loops that no stop()
\* was issued to, so that a failed utterance is what can refute it.
C9_FinishedOnlyOnExhaustion ==
  [][\A t \in Threads :
       (EmitsFinishedReading(t) /\ ~stopped[t])
         => current_index = Len(content_queue)]_vars

\* the loop of thread t broke out because _speak returned False
BrokeOnFailure(t) == pc[t] \in {"failchk", "exit", "finish"} /\ ~success[t]

\* C10: when _speak fails for a segment and no skip was requested, the loop
\* goes straight to its exit: it leaves current_index where it is, processes
\* no other segment and sets is_playing to false.
C10_FailureEndsRun ==
  [][\A t \in Threads : (BrokeOnFailure(t) /\ Steps(t)) =>
       /\ current_index' = current_index
       /\ pc[t] = "failchk" => pc'[t] = "exit"
       /\ pc[t] = "exit" => (pc'[t] = "finish" /\ ~is_playing')
       /\ pc[t] = "finish" => pc'[t] = "dead"]_vars

\* a loop that was not stopped has left the playing state after a failure of
\* the first of two segments
C10_Witness ==
  \E t \in Threads :
    /\ pc[t] = "finish" /\ ~success[t]
    /\ ~stop_event /\ ~is_playing
    /\ current_index = 0 /\ Len(content_queue) = 2

\* thread t is back from a _speak whose `say` process pause() terminated:
\* the last command is that pause(), and no stop() was issued to the loop
InterruptedByPause(t) ==
  /\ pc[t] = "failchk"
  /\ proc[t] = "terminated"
  /\ last_cmd = "pause"
  /\ ~stopped[t] /\ ~stop_event

\* C11: an utterance interrupted by pause() is not treated as a failure: the
\* loop does not break out (macOS variant, where pause() ends the process).
C11_PauseIsNotFailure ==
  [][\A t \in Threads : InterruptedByPause(t) => pc'[t] # "exit"]_vars

\* the speakers of the queue are pairwise distinct and the pool has a voice
\* for each
DistinctSpeakers(queue) ==
  /\ \A i, j \in DOMAIN queue : queue[i][1] = queue[j][1] => i = j
  /\ Len(queue) <= PoolSize

\* C12: with pairwise distinct speakers, no more than the pool has voices, a
\* play() with no further command and no failure of _speak is heard as
\* "[1/N]", ..., "[N/N]" in this order, once each, with the authors of the
\* queue and pairwise distinct voices, then one "Finished reading" and
\* nothing more; when the loop has ended all of it has been heard.
C12_ProgressInOrder ==
  (/\ run = "played"
   /\ DistinctSpeakers(content_queue)
   /\ \A k \in DOMAIN heard : heard[k].kind # "failed") =>
    LET N == Len(content_queue) IN
    /\ Len(heard) <= N + 1
    /\ \A k \in DOMAIN heard :
         IF k <= N
         THEN /\ heard[k].kind = "progress"
              /\ heard[k].pos = k /\ heard[k].of = N
              /\ heard[k].author = content_queue[k][1]
              /\ \A j \in 1..(k - 1) : heard[j].voice # heard[k].voice
         ELSE heard[k].kind = "finished"
    /\ LiveThreads = {} => Len(heard) = N + 1

\* two segments have been announced with two voices, and the reading finished
C12_Witness ==
  /\ run = "played" /\ LiveThreads = {}
  /\ Len(content_queue) = 2 /\ Len(heard) = 3
  /\ heard[1].voice # heard[2].voice
  /\ heard[3].kind = "finished"

\* C13: while the controller is paused the mixer is not playing audio.
C13_NoAudioWhilePaused == is_paused => music # "playing"

\* C14: after stop(), once every consumer loop has exited, no voice is
\* assigned to any speaker.
C14_StopClearsVoices ==
  (last_cmd = "stop" /\ LiveThreads = {}) =>
    (agent_voices = <<>> /\ assigned_voices = <<>>)

\* C15: whenever a loop reads content_queue[current_index], the index is
\* within the queue.
C15_NoTornRead ==
  [][\A t \in Threads :
       (pc[t] = "get" /\ Steps(t)) => current_index < Len(content_queue)]_vars

\* the step is thread t returning from _speak
SpeakReturns(t) == pc[t] \in SpeakPcs /\ pc'[t] = "skipchk"

\* C16: when _speak returns, on whatever path, the temp audio file of the
\* utterance has been removed.
C16_SpeakReleasesAudio ==
  [][\A t \in Threads : SpeakReturns(t) => ~current_audio_file']_vars

\* C17: a loop that stop() was issued to exits in the end, wherever it was,
\* unless another command follows the stop().
C17_StoppedLoopExits ==
  \A t \in Threads :
    (stopped[t] /\ last_cmd = "stop") ~> (~Live(t) \/ last_cmd # "stop")

\* a loop that stop() was issued to is at its last statement
C17_Witness ==
  \E t \in Threads : stopped[t] /\ last_cmd = "stop" /\ pc[t] = "finish"

\* the step is the mixer reaching the end of the audio it plays
AudioCompletes ==
  music = "playing" /\ music' = "idle" /\ UNCHANGED <<pc, ncmds>>

\* a skip() was accepted during the utterance of the current segment and the
\* loop has not honoured it yet
SkipUnderWay ==
  run = "skipped" /\ log = <<>> /\ skip_requested /\ current_index = skip_at

\* C18: the audio of an utterance during which skip() was accepted is not
\* played to its end.
C18_SkipInterrupts == [][SkipUnderWay => ~AudioCompletes]_vars

\* the controller is Idle
Idle == ~is_playing /\ ~is_paused

\* the step hands something to status_callback
EmitsCallback == \E t \in Threads : EmitsProgress(t) \/ EmitsFinishedReading(t)

\* C19: pause() and skip() in the Idle state change none of is_playing,
\* is_paused, current_index, skip_requested, the pause gate and the voice
\* assignments, and emit no callback.
C19_IdlePauseSkipNoOp ==
  [][(Idle /\ (Pause \/ Skip)) =>
       /\ UNCHANGED <<is_playing, is_paused, current_index, skip_requested,
                      pause_event, agent_voices, assigned_voices>>
       /\ ~EmitsCallback]_vars

\* Idle after a stop(), a page loaded, the buttons enabled
C19_Witness ==
  /\ Idle /\ last_cmd = "stop" /\ ui_pc = "idle"
  /\ content_queue # <<>> /\ ncmds < MaxCommands

\* C20: play() in the Idle state with an empty queue leaves is_playing false,
\* starts no loop and emits no callback.
C20_PlayEmptyNoOp ==
  [][(Idle /\ content_queue = <<>> /\ Play) =>
       /\ ~is_playing'
       /\ pc' = pc
       /\ ~EmitsCallback]_vars

\* Idle with nothing loaded, after a stop()
C20_Witness ==
  /\ Idle /\ content_queue = <<>> /\ ui_pc = "idle"
  /\ last_cmd = "stop" /\ ncmds < MaxCommands

\* the step is set_content returning (its second assignment)
SetContentReturns == ui_pc = "set_index" /\ ui_pc' = "reset"

\* C21: when set_content returns, from whatever state it was called in, the
\* controller is Idle (not playing, not paused), current_index is 0 and the
\* queue is the page handed over.
C21_LoadLeavesIdle ==
  [][SetContentReturns =>
       /\ ~is_playing' /\ ~is_paused'
       /\ current_index' = 0
       /\ content_queue' \in Contents]_vars

\* the step is one of the two assignments of set_content
SetContentStep ==
  (ui_pc = "idle" /\ ui_pc' = "set_index") \/ SetContentReturns

\* the step empties the voice assignments
ClearsVoices ==
  /\ (agent_voices # <<>> \/ assigned_voices # <<>>)
  /\ agent_voices' = <<>> /\ assigned_voices' = <<>>

\* C22: set_content leaves agent_voices and assigned_voices as they are; the
\* only steps that empty them are voice_manager.reset() of the caller and
\* stop().
C22_LoadKeepsVoices ==
  [][/\ SetContentStep => UNCHANGED <<agent_voices, assigned_voices>>
     /\ ClearsVoices => (ui_pc = "reset" \/ Accepted("stop"))]_vars

\* set_content has returned and the voices assigned before are still there
C22_Witness ==
  /\ ui_pc = "reset"
  /\ agent_voices # <<>> /\ assigned_voices # <<>>

\* the loops the step starts
Started == {t \in Threads : ~Live(t) /\ pc'[t] # "dead"}

\* the controller is Playing after the step
PlayingNext == is_playing' /\ ~is_paused'

\* C23: play() with a non-empty queue, called when not playing (Idle or
\* Finished), sets Playing and starts exactly one loop, at "while", and
\* leaves current_index alone; called when paused it sets Playing, opens the
\* pause gate, leaves current_index alone and starts no loop.
C23_PlayStartsOrResumes ==
  [][(Play /\ content_queue # <<>> /\ (is_paused \/ ~is_playing)) =>
       /\ PlayingNext
       /\ pause_event'
       /\ current_index' = current_index
       /\ IF is_paused
          THEN Started = {}
          ELSE Cardinality(Started) = 1 /\ \A t \in Started : pc'[t] = "while"]_vars

\* the call was reset()
IsReset(c) == c[1] = ""

\* the position of the last reset() among the calls, 0 when there is none
LastReset ==
  IF \E k \in DOMAIN calls : IsReset(calls[k])
  THEN CHOOSE k \in DOMAIN calls :
         IsReset(calls[k]) /\ \A j \in (k + 1)..Len(calls) : ~IsReset(calls[j])
  ELSE 0

\* the calls of get_voice_for_agent since the last reset(), and those of the
\* session before it
Session == SubSeq(calls, LastReset + 1, Len(calls))

Earlier == {k \in 1..(LastReset - 1) :
              ~IsReset(calls[k]) /\ \A j \in k..(LastReset - 1) : ~IsReset(calls[j])}

\* C24: between two resets, every call of get_voice_for_agent for the same
\* agent returns the same voice, whatever was assigned in between.
C24_VoiceIsStable ==
  \A i, j \in DOMAIN Session :
    Session[i][1] = Session[j][1] => Session[i][2] = Session[j][2]

\* an agent was asked about again after another agent got a voice
C24_Witness ==
  \E i, j, k \in DOMAIN Session :
    /\ i < j /\ j < k
    /\ Session[i][1] = Session[k][1]
    /\ Session[j][1] # Session[i][1]

\* the calls of the session that are the first for their agent, and the rank
\* of such a call among them
Firsts == {i \in DOMAIN Session : \A j \in 1..(i - 1) : Session[j][1] # Session[i][1]}

Rank(i) == Cardinality({j \in Firsts : j <= i})

\* C25: after a reset the first PoolSize distinct agents get pairwise
\* distinct voices, whatever random.choice picks, and the next distinct agent
\* gets a voice of the pool that an earlier agent holds.
C25_DistinctUntilExhausted ==
  \A i \in Firsts :
    /\ Session[i][2] \in Voices
    /\ Rank(i) <= PoolSize =>
         \A j \in Firsts : j < i => Session[j][2] # Session[i][2]
    /\ Rank(i) = PoolSize + 1 =>
         \E j \in Firsts : j < i /\ Session[j][2] = Session[i][2]

\* one agent more than the pool has voices has been given a voice
C25_Witness == Cardinality(Firsts) = PoolSize + 1

\* C26: right after reset() the map and the list of assigned voices are
\* empty and the next agent may get any voice of the pool.
C26_ResetClears ==
  (calls # <<>> /\ IsReset(calls[Len(calls)])) =>
    /\ agent_voices = <<>>
    /\ assigned_voices = <<>>
    /\ VoiceChoices(assigned_voices) = Voices

\* an agent has, after a reset(), another voice than the one it had before
C26_Witness ==
  \E k \in Earlier, i \in DOMAIN Session :
    /\ calls[k][1] = Session[i][1]
    /\ calls[k][2] # Session[i][2]

\* C27: every call of get_voice_for_agent returns a voice of the pool and
\* leaves it recorded for the agent, whatever the pool the manager was
\* constructed with (MacOSVoiceManager).
C27_AssignIsTotal ==
  \A k \in DOMAIN calls :
    ~IsReset(calls[k]) =>
      /\ calls[k][2] \in Range(available_voices)
      /\ k = Len(calls) =>
           (calls[k][1] \in DOMAIN agent_voices /\ agent_voices[calls[k][1]] = calls[k][2])

\* C28: what the loop hands to _speak for a segment (speaker, text) is the
\* text "<speaker> says, <text>" and the voice assigned to the speaker
\* (macOS variant; observed in a reading no command interferes with).
C28_SpokenWithIntro ==
  said # NoRequest =>
    \E i \in DOMAIN content_queue :
      LET speaker == content_queue[i][1]
          text == content_queue[i][2]
      IN /\ said[1] = <<speaker, " says, ", text>>
         /\ speaker \in DOMAIN agent_voices
         /\ said[2] = agent_voices[speaker]

\* the speakers of a segment list
SpeakersOf(content) == {content[i][1] : i \in DOMAIN content}

\* no load_url request is between its two writes to the entry of key k
Settled(k) == \A r \in LoadIds : ~(loads[r].pc = "assign" /\ loads[r].sid = k)

\* the voice manager the entry of key k refers to
StoredManager(k) == managers[sessions[k].vm]

\* C29: once the load_url requests for a session key have answered, the
\* entry of the key holds a segment list a request extracted and voice
\* assignments for the speakers of that list and for no one else.
C29_LoadReplacesSession ==
  \A k \in DOMAIN sessions :
    Settled(k) =>
      /\ \E r \in LoadIds : loads[r].pc = "done" /\ sessions[k].content = loads[r].content
      /\ DOMAIN StoredManager(k).agent_voices = SpeakersOf(sessions[k].content)

\* the step is reset_session for caller c
Resets(c) == reply'[c] = "reset" /\ nkeys' = nkeys + 1

\* the step is get_audio answering caller c
AudioAnswered(c) ==
  /\ reply'[c] \in {"Session not found", "Invalid index", "audio"}
  /\ UNCHANGED <<sessions, cookie, nkeys, loads, after_reset>>
  /\ reply'[c] # reply[c] \/ managers' # managers

\* C30: reset_session removes the entry of the caller's key from the store and
\* gives the caller a key that was never issued before; from then until a
\* load_url of the caller has fetched a page and stored it, every get_audio
\* of the caller is answered with "Session not found".
C30_ResetForgetsSession ==
  [][\A c \in Callers :
       /\ Resets(c) =>
            /\ cookie[c] \notin DOMAIN sessions'
            /\ cookie'[c] # cookie[c]
            /\ cookie'[c] > nkeys
       /\ (after_reset[c] /\ AudioAnswered(c)) => reply'[c] = "Session not found"]_vars

\* ---- the session store of app.py -------------------------------------------
\* what the store holds for each key: the content and the voice assignments
Store ==
  [k \in DOMAIN sessions |->
     [content |-> sessions[k].content, voice_manager |-> StoredManager(k)]]

\* a step of a load_url request that ends in an error response: the answer
\* to a request without url, the receipt of a request, the failed fetch
FailedLoadStep ==
  \/ \E c \in Callers : reply[c] # "No URL provided" /\ reply'[c] = "No URL provided"
  \/ \E r \in LoadIds : loads[r].pc = "new" /\ loads'[r].pc = "fetch"
  \/ \E r \in LoadIds : loads[r].pc = "fetch" /\ loads'[r].pc = "done"

\* C32: a load request answered with an error (no url, or an error of
\* fetch_page) leaves the whole session store as it was: the entry of the
\* caller and the entries of all other keys.
C32_FailedLoadKeepsStore == [][FailedLoadStep => Store' = Store]_vars

\* a failed load answered to a caller whose session holds a loaded page
C32_Witness ==
  \E c \in Callers :
    /\ reply[c] = "fetch error"
    /\ cookie[c] \in DOMAIN sessions
    /\ sessions[cookie[c]].content # <<>>
    /\ StoredManager(cookie[c]).agent_voices # <<>>

\* what get_audio answers with status 404
NotFound == {"Session not found", "Invalid index"}

\* caller c receives the response of a get_audio request: no other handler
\* leaves loads and nkeys alone and answers c so; a request that repeats
\* the last one shows in the manager of the session of c at most
GetAudioStep(c) ==
  /\ loads' = loads /\ nkeys' = nkeys
  /\ reply'[c] \in NotFound \cup {"audio"}
  /\ audio'[c] # NoAudio
  /\ \A d \in Callers \ {c} : reply'[d] = reply[d] /\ audio'[d] = audio[d]
  /\ \/ reply'[c] # reply[c]
     \/ audio'[c] # audio[c]
     \/ /\ cookie[c] \in DOMAIN sessions
        /\ managers'[sessions[cookie[c]].vm] # managers[sessions[cookie[c]].vm]

\* the request of c asks for an unknown session or for an index outside the
\* content of its session
BadAudioRequest(c) ==
  \/ cookie[c] \notin DOMAIN sessions
  \/ audio'[c].index < 0
  \/ audio'[c].index >= Len(sessions[cookie[c]].content)

\* C33: an audio request for an unknown session key, or for an index that is
\* negative or not below the length of the content, is answered 404, calls
\* generate_audio for nothing and leaves the session store as it was.
C33_BadAudioRequest ==
  [][\A c \in Callers :
       (GetAudioStep(c) /\ BadAudioRequest(c)) =>
         /\ reply'[c] \in NotFound
         /\ audio'[c].voice = 0
         /\ Store' = Store]_vars

\* a request for the index just past the content of a loaded session, and
\* a request under a key the store does not have, both answered 404
C33_Witness ==
  \E c \in Callers :
    /\ audio[c] # NoAudio
    /\ audio[c].voice = 0
    /\ \/ /\ reply[c] = "Invalid index"
          /\ cookie[c] \in DOMAIN sessions
          /\ audio[c].index = Len(sessions[cookie[c]].content)
          /\ audio[c].index > 0
       \/ /\ reply[c] = "Session not found"
          /\ cookie[c] # 0
          /\ cookie[c] \notin DOMAIN sessions

\* C34: an audio request for item i of a loaded session synthesises with,
\* and reports in X-Voice, the voice that a load response which returned
\* the session's list gave as voice_name of item i.
C34_AudioVoiceIsLoadVoice ==
  [][LET \* load_url request r was answered with success
         Responded(r) == loads[r].pc = "done" /\ loads[r].obj # 0
         \* items[i]['voice_name'] of the response of request r
         VoiceName(r, i) ==
           managers[r].agent_voices[loads[r].content[i + 1][1]]
         \* the answered loads of key k that returned the list the store
         \* holds for k
         LoadsOf(k) ==
           {r \in LoadIds : /\ Responded(r)
                            /\ loads[r].sid = k
                            /\ loads[r].content = sessions[k].content}
     IN \A c \in Callers :
          ( /\ GetAudioStep(c) /\ reply'[c] = "audio"
            /\ Settled(cookie[c]) /\ LoadsOf(cookie[c]) # {} ) =>
            \E r \in LoadsOf(cookie[c]) :
              audio'[c].voice = VoiceName(r, audio'[c].index)]_vars

\* the session keys of the request that takes the step: the key a load_url
\* request read when it was received, the key in the cookie of the caller
\* of any other request (each handler but load_url answers in the step)
ActingKeys ==
  LET answered == {c \in Callers : \/ reply'[c] # reply[c]
                                   \/ audio'[c] # audio[c]
                                   \/ cookie'[c] # cookie[c]}
  IN IF loads' # loads
     THEN {loads'[r].sid : r \in {q \in LoadIds : loads'[q] # loads[q]}}
     ELSE IF answered # {}
     THEN {cookie[c] : c \in answered}
     \* a get_audio request that repeats the last request of its caller
     ELSE {cookie[c] : c \in {d \in Callers : reply[d] = "audio"}}

\* C35: a request made under one session key changes the stored content and
\* voice assignments of no other key: every other entry stays, as it was,
\* and no entry appears under another key.
C35_SessionsIsolated ==
  [][ /\ \A k \in DOMAIN Store \ ActingKeys :
           k \in DOMAIN Store' /\ Store'[k] = Store[k]
      /\ DOMAIN Store' \ DOMAIN Store \subseteq ActingKeys ]_vars

\* two sessions with a loaded page and voices each, one of them asked for
\* audio
C35_Witness ==
  /\ Cardinality(DOMAIN sessions) >= 2
  /\ \A k \in DOMAIN sessions :
       sessions[k].content # <<>> /\ StoredManager(k).agent_voices # <<>>
  /\ \E c \in Callers : audio[c] # NoAudio /\ audio[c].voice # 0

\* ---- fetch_page ------------------------------------------------------------
\* C31: every call of fetch_page returns either a non-empty list without an
\* error or an empty list with an error message, and it returns the second
\* for a url outside moltbook.com, for a fetch that timed out and for a
\* page whose extraction yields no segment.
C31_NoEmptySuccess ==
  LET \* the last call returned a non-empty list and no error
      Success == fetched.content # <<>> /\ fetched.error = None
      \* the last call returned an empty list and an error message
      Failure == fetched.content = <<>> /\ fetched.error # None
      \* the url of the last call is outside the source domain
      OutsideDomain == Host(fetched.url) # "moltbook.com"
  IN fetched.net # "none" =>
       /\ Success \/ Failure
       /\ ( \/ OutsideDomain
            \/ FetchWithPlaywright(fetched.net, fetched.page) = "PlaywrightTimeout"
            \/ ExtractContent(fetched.page) = <<>> ) => Failure

\* ---- the engine, further properties -----------------------------------------
\* C36: in every reachable state is_paused implies is_playing: the engine
\* is never marked paused while it is not marked playing.
C36_PausedImpliesPlaying == is_paused => is_playing

\* C37: whenever no _speech_loop thread exists, skip_requested is false: no
\* skip request is left over for the run the next play() starts.
C37_SkipDiesWithRun == LiveThreads = {} => ~skip_requested

\* C38: within one run, from the play() that starts the loop and with no
\* stop() or load after it, each progress callback reports the index of the
\* callback before it or the next index.
C38_ProgressStepsByOne ==
  [][\A t \in Threads :
       (EmitsProgress(t) /\ shown >= 0) =>
         (current_index = shown \/ current_index = shown + 1)]_vars

\* C39: if from some point on a run started by play() is followed by no
\* stop() and no load, the engine is not paused and no utterance has failed,
\* then, the threads being scheduled and the audio reaching its end, the
\* loop exits and leaves is_playing false and current_index =
\* len(content_queue). A run is kept while shown # -2.
C39_RunReadsToEnd ==
  <>[](shown # -2 /\ ~is_paused /\ ~failed) =>
    <>[](LiveThreads = {} /\ ~is_playing /\ current_index = Len(content_queue))

\* C40: while a loop that play() started after the last stop() is executing,
\* is_playing is true: the exit of an earlier, stopped loop does not reset it.
\* Such a loop is live, was issued no stop() and is not past its last statement.
C40_PlayingWhileLoopRuns ==
  (\E t \in Threads : Live(t) /\ ~stopped[t] /\ pc[t] # "finish") => is_playing

====
